---- MODULE Spec2Model ----
\* Model of astar() in src/maze_solution_group_eltonys.py (src/solution1.py holds
\* the same function): A* over (position, direction) states where a node may be
\* left only forward or with a right turn.
\*
\* Python lists are 0-based, TLA+ sequences 1-based: coordinates keep the
\* program's 0-based values and maze[r][c] is read as maze[r + 1][c + 1];
\* open_list / closed_list hold references to Node objects, modelled as indices
\* into the arena `nodes` of every Node object astar has created.
EXTENDS Integers, Sequences, FiniteSets, TLC

\* Largest number of cells of the mazes the search is run on.
MaxCells == 9
\* Largest number of cells of the mazes of the calls followed, under fairness,
\* from the call to the return.
MaxFairCells == 8
\* The wider mazes, with few walls, on which two nodes of one State meet in
\* the frontier: at most MaxWideCells cells, at most MaxWideWalls walls.
MaxWideCells == 12
MaxWideWalls == 2
\* Largest number of cells of the mazes given to astar without any check of
\* the input (ragged rows, start/end anywhere around the grid).
MaxRawCells == 4

VARIABLES maze, start, end, nodes, open_list, closed_list, pc, result

vars == <<maze, start, end, nodes, open_list, closed_list, pc, result>>

\* ---------------------------------------------------------------- constants
None == <<>>

UP == <<-1, 0>>
RIGHT == <<0, 1>>
DOWN == <<1, 0>>
LEFT == <<0, -1>>

DIRECTIONS == <<UP, RIGHT, DOWN, LEFT>>

\* Mutation: the table turns left.
turn_left_map(d) ==
    CASE d = UP -> LEFT
      [] d = LEFT -> DOWN
      [] d = DOWN -> RIGHT
      [] d = RIGHT -> UP

turn_right_map(d) ==
    CASE d = UP -> RIGHT
      [] d = RIGHT -> DOWN
      [] d = DOWN -> LEFT
      [] d = LEFT -> UP

abs(x) == IF x < 0 THEN -x ELSE x

\* Mutation: the constructor drops the direction.
NodeUndirected(parent, position, direction) ==
    [parent |-> parent, position |-> position, direction |-> None,
     g |-> 0, h |-> 0, f |-> 0]

\* Node(parent, position, direction): g, h and f start at 0.
Node(parent, position, direction) ==
    [parent |-> parent, position |-> position, direction |-> direction,
     g |-> 0, h |-> 0, f |-> 0]

\* Mutation: equality on the position alone.
NodeEqPosition(a, b) == a.position = b.position

\* Node.__eq__: same position and same direction.
NodeEq(a, b) == a.position = b.position /\ a.direction = b.direction

\* ------------------------------------------------------------ pop (min f)
\* Mutation: the scan keeps the item with the larger f.
RECURSIVE ScanMax(_, _, _, _)
ScanMax(ns, ol, index, current_index) ==
    IF index > Len(ol) THEN current_index
    ELSE ScanMax(ns, ol, index + 1,
                 IF ns[ol[index]].f > ns[ol[current_index]].f
                 THEN index ELSE current_index)

\* Mutation: the current choice is replaced by an item with an equal f too.
RECURSIVE ScanMinLast(_, _, _, _)
ScanMinLast(ns, ol, index, current_index) ==
    IF index > Len(ol) THEN current_index
    ELSE ScanMinLast(ns, ol, index + 1,
                     IF ns[ol[index]].f <= ns[ol[current_index]].f
                     THEN index ELSE current_index)

\* The linear scan of open_list: the current choice is replaced only by an
\* item with a strictly smaller f.
RECURSIVE ScanMin(_, _, _, _)
ScanMin(ns, ol, index, current_index) ==
    IF index > Len(ol) THEN current_index
    ELSE ScanMin(ns, ol, index + 1,
                 IF ns[ol[index]].f < ns[ol[current_index]].f
                 THEN index ELSE current_index)

current_index(ns, ol) == ScanMin(ns, ol, 1, 1)

\* list.pop(i)
Pop(s, i) == SubSeq(s, 1, i - 1) \o SubSeq(s, i + 1, Len(s))

\* ------------------------------------------------------- path reconstruction
\* Mutation: the walk stops at the node that has no parent, leaving it out.
RECURSIVE ParentChainBelowRoot(_, _)
ParentChainBelowRoot(ns, id) ==
    IF ns[id].parent = 0 THEN <<>>
    ELSE <<ns[id].position>> \o ParentChainBelowRoot(ns, ns[id].parent)

RECURSIVE ParentChain(_, _)
ParentChain(ns, id) ==
    IF id = 0 THEN <<>>
    ELSE <<ns[id].position>> \o ParentChain(ns, ns[id].parent)

Reversed(s) == [i \in 1..Len(s) |-> s[Len(s) + 1 - i]]

\* Mutation: the collected positions are returned without reversing them.
ReconstructPathUnreversed(ns, id) == ParentChain(ns, id)

ReconstructPath(ns, id) == Reversed(ParentChain(ns, id))

\* ------------------------------------------------------ successor generation
\* Mutation: a directed node may only go forward.
possible_moves_forward(direction) ==
    IF direction = None THEN DIRECTIONS
    ELSE <<direction>>

possible_moves(direction) ==
    IF direction = None THEN DIRECTIONS
    ELSE <<direction, turn_right_map(direction)>>

node_position(position, move_direction) ==
    <<position[1] + move_direction[1], position[2] + move_direction[2]>>

\* 0 <= r < len(maze) and 0 <= c < len(maze[0])
WithinRange(mz, p) ==
    /\ 0 <= p[1] /\ p[1] < Len(mz)
    /\ 0 <= p[2] /\ p[2] < Len(mz[1])

\* maze[r][c] raises IndexError when row r is shorter than row 0.
CellRaises(mz, p) == p[2] + 1 > Len(mz[p[1] + 1])

\* Mutation: the wall test inverted.
WalkableInverted(mz, p) == mz[p[1] + 1][p[2] + 1] # 0

\* maze[r][c] != 0 means a wall.
Walkable(mz, p) == mz[p[1] + 1][p[2] + 1] = 0

\* Mutation: the generation loop without the wall test.
RECURSIVE ChildrenThroughWalls(_, _, _, _, _)
ChildrenThroughWalls(mz, cur_id, cur, moves, i) ==
    IF i > Len(moves) THEN <<>>
    ELSE LET p == node_position(cur.position, moves[i])
             rest == ChildrenThroughWalls(mz, cur_id, cur, moves, i + 1)
         IN IF ~WithinRange(mz, p) THEN rest
            ELSE <<Node(cur_id, p, moves[i])>> \o rest

\* The Node objects the generation loop creates, in the order of the moves.
RECURSIVE Children(_, _, _, _, _)
Children(mz, cur_id, cur, moves, i) ==
    IF i > Len(moves) THEN <<>>
    ELSE LET p == node_position(cur.position, moves[i])
             rest == Children(mz, cur_id, cur, moves, i + 1)
         IN IF ~WithinRange(mz, p) THEN rest
            ELSE IF ~Walkable(mz, p) THEN rest
            ELSE <<Node(cur_id, p, moves[i])>> \o rest

\* The generation loop reads a cell that does not exist.
GenerationRaises(mz, cur) ==
    LET moves == possible_moves(cur.direction)
    IN \E i \in 1..Len(moves) :
          LET p == node_position(cur.position, moves[i])
          IN WithinRange(mz, p) /\ CellRaises(mz, p)

\* ---------------------------------------------------------- process children
\* Mutation: no child is ever found in the closed list.
InClosedNever(ns, cl, child) == FALSE

\* child in closed_list
InClosed(ns, cl, child) == \E k \in 1..Len(cl) : NodeEq(child, ns[cl[k]])

\* Mutation: no child is ever found dominated by an open node.
DominatedNever(ns, ol, child) == FALSE

\* is_in_open_list: an open node of the same state whose g is not larger.
Dominated(ns, ol, child) ==
    \E k \in 1..Len(ol) : NodeEq(child, ns[ol[k]]) /\ child.g >= ns[ol[k]].g

\* Mutation: three times the Manhattan distance.
HeuristicTripled(p, goal) == 3 * (abs(p[1] - goal[1]) + abs(p[2] - goal[2]))

Heuristic(p, goal) == abs(p[1] - goal[1]) + abs(p[2] - goal[2])

\* Mutation: a child gets the g of its parent.
WithCostsNoStep(child, cur, goal) ==
    LET g == cur.g
        h == Heuristic(child.position, goal)
    IN [child EXCEPT !.g = g, !.h = h, !.f = g + h]

\* Mutation: f is the heuristic alone (greedy best-first).
WithCostsGreedy(child, cur, goal) ==
    LET g == cur.g + 1
        h == Heuristic(child.position, goal)
    IN [child EXCEPT !.g = g, !.h = h, !.f = h]

WithCosts(child, cur, goal) ==
    LET g == cur.g + 1
        h == Heuristic(child.position, goal)
    IN [child EXCEPT !.g = g, !.h = h, !.f = g + h]

\* The body of the loop over the children, for the child with id `id` of the
\* arena: st holds the arena and the open list before it, the result after it.
ProcessChild(st, cl, cur, goal, id) ==
    IF InClosed(st.nodes, cl, st.nodes[id]) THEN st
    ELSE LET child == WithCosts(st.nodes[id], cur, goal)
             ns == [st.nodes EXCEPT ![id] = child]
         IN IF Dominated(ns, st.open_list, child)
            THEN [nodes |-> ns, open_list |-> st.open_list]
            ELSE [nodes |-> ns, open_list |-> Append(st.open_list, id)]

\* The loop over the children with ids id..last. Each pass works on the value
\* the pass before it left (s is that value, computed once).
RECURSIVE ProcessChildren(_, _, _, _, _, _)
ProcessChildren(st, cl, cur, goal, id, last) ==
    IF id > last THEN st
    ELSE CHOOSE after \in {ProcessChildren(s, cl, cur, goal, id + 1, last) :
                             s \in {ProcessChild(st, cl, cur, goal, id)}} : TRUE

\* ------------------------------------------------------------------- inputs
\* Grid shapes of at most n cells; a side is at least 2 cells, a one-cell-wide
\* corridor leaves no room for a turn.
Dims(n) == {d \in (2..n) \X (2..n) : d[1] * d[2] <= n}

Grids(n) == UNION {[1..d[1] -> [1..d[2] -> {0, 1}]] : d \in Dims(n)}

\* Grids of at most n cells with sides of at least 3 cells and at most w walls.
WideDims(n) == {d \in (3..n) \X (3..n) : d[1] * d[2] <= n}

WallCount(mz) ==
    Cardinality({p \in (1..Len(mz)) \X (1..Len(mz[1])) : mz[p[1]][p[2]] # 0})

WideGrids(n, w) ==
    {mz \in UNION {[1..d[1] -> [1..d[2] -> {0, 1}]] : d \in WideDims(n)} :
        WallCount(mz) <= w}

\* Lists of non-empty rows of 0/1 whose lengths may differ.
Rows(n) == UNION {[1..c -> {0, 1}] : c \in 1..n}
RECURSIVE SumLen(_)
SumLen(mz) == IF mz = <<>> THEN 0 ELSE Len(Head(mz)) + SumLen(Tail(mz))
RawGrids(n) ==
    {mz \in UNION {[1..r -> Rows(n)] : r \in 1..n} : SumLen(mz) <= n}

Rectangular(mz) == \A r \in 1..Len(mz) : Len(mz[r]) = Len(mz[1])

\* A cell marked 0.
Free(mz, p) == mz[p[1] + 1][p[2] + 1] = 0

Cells(mz) == {p \in (0..(Len(mz) - 1)) \X (0..(Len(mz[1]) - 1)) : TRUE}

FreeCells(mz) == {p \in Cells(mz) : Free(mz, p)}

\* Coordinates in and just around the grid.
RawCoords(mz) == (-1..Len(mz)) \X (-1..Len(mz[1]))

ValidInput ==
    /\ Rectangular(maze)
    /\ start \in Cells(maze) /\ end \in Cells(maze)
    /\ Free(maze, start) /\ Free(maze, end)

\* ---------------------------------------------------------------- the search
\* astar up to the while loop: the start node is the only open node.
Setup ==
    /\ nodes = <<Node(0, start, None)>>
    /\ open_list = <<1>>
    /\ closed_list = <<>>
    /\ pc = "Running"
    /\ result = None

Init ==
    /\ maze \in Grids(MaxCells)
    /\ start \in FreeCells(maze)
    /\ end \in FreeCells(maze)
    /\ Setup

InitRaw ==
    /\ maze \in RawGrids(MaxRawCells)
    /\ start \in RawCoords(maze)
    /\ end \in RawCoords(maze)
    /\ Setup

InitWide ==
    /\ maze \in WideGrids(MaxWideCells, MaxWideWalls)
    /\ start \in FreeCells(maze)
    /\ end \in FreeCells(maze)
    /\ Setup

\* One iteration that pops the goal: the path is returned.
FoundGoal ==
    /\ pc = "Running"
    /\ Len(open_list) > 0
    /\ \E ci \in {current_index(nodes, open_list)} :
          /\ nodes[open_list[ci]].position = end
          /\ open_list' = Pop(open_list, ci)
          /\ closed_list' = Append(closed_list, open_list[ci])
          /\ result' = ReconstructPath(nodes, open_list[ci])
          /\ pc' = "Success"
    /\ UNCHANGED <<maze, start, end, nodes>>

\* One iteration that pops a node which is not the goal and expands it.
Expand ==
    /\ pc = "Running"
    /\ Len(open_list) > 0
    /\ \E ci \in {current_index(nodes, open_list)} :
       \E cur \in {nodes[open_list[ci]]} :
          /\ cur.position # end
          /\ ~GenerationRaises(maze, cur)
          /\ \E cl \in {Append(closed_list, open_list[ci])} :
             \E ns \in {nodes \o Children(maze, open_list[ci], cur,
                                         possible_moves(cur.direction), 1)} :
             \E after \in {ProcessChildren(
                              [nodes |-> ns, open_list |-> Pop(open_list, ci)],
                              cl, cur, end, Len(nodes) + 1, Len(ns))} :
                /\ closed_list' = cl
                /\ nodes' = after.nodes
                /\ open_list' = after.open_list
    /\ UNCHANGED <<maze, start, end, pc, result>>

\* One iteration whose generation loop raises IndexError (a ragged maze).
ExpandRaises ==
    /\ pc = "Running"
    /\ Len(open_list) > 0
    /\ \E ci \in {current_index(nodes, open_list)} :
          /\ nodes[open_list[ci]].position # end
          /\ GenerationRaises(maze, nodes[open_list[ci]])
          /\ open_list' = Pop(open_list, ci)
          /\ closed_list' = Append(closed_list, open_list[ci])
          /\ pc' = "IndexError"
    /\ UNCHANGED <<maze, start, end, nodes, result>>

\* The while condition fails: return None.
ReturnNone ==
    /\ pc = "Running"
    /\ Len(open_list) = 0
    /\ pc' = "Exhausted"
    /\ UNCHANGED <<maze, start, end, nodes, open_list, closed_list, result>>

Next == FoundGoal \/ Expand \/ ReturnNone

NextRaw == FoundGoal \/ Expand \/ ExpandRaises \/ ReturnNone

\* astar on valid input.
Spec == Init /\ [][Next]_vars

\* astar on any input, valid or not.
SpecRaw == InitRaw /\ [][NextRaw]_vars

\* astar on valid input, wider mazes.
SpecWide == InitWide /\ [][Next]_vars

\* Before astar is called: no maze, no nodes.
InitIdle ==
    /\ maze = <<>> /\ start = None /\ end = None
    /\ nodes = <<>> /\ open_list = <<>> /\ closed_list = <<>>
    /\ pc = "Idle"
    /\ result = None

\* main() calls astar on a valid input: astar up to the while loop.
Call ==
    /\ pc = "Idle"
    /\ maze' \in Grids(MaxFairCells)
    /\ start' \in FreeCells(maze')
    /\ end' \in FreeCells(maze')
    /\ nodes' = <<Node(0, start', None)>>
    /\ open_list' = <<1>>
    /\ closed_list' = <<>>
    /\ pc' = "Running"
    /\ result' = None

NextCall == Call \/ FoundGoal \/ Expand \/ ReturnNone

\* A call of astar from its start to its return: the code is sequential and
\* nothing suspends it, so a step that can be taken is taken.
FairSpec == InitIdle /\ [][NextCall]_vars /\ WF_vars(NextCall)

\* ------------------------------------------------- reference (what is asked)
\* The constraint stated on its own, not through the program's tables: the
\* four unit steps, the clockwise quarter turn of a step, and the breadth-first
\* distance over (position, heading) states.
UnitSteps == {d \in (-1..1) \X (-1..1) : abs(d[1]) + abs(d[2]) = 1}

Clockwise(d) == <<d[2], -d[1]>>

StepBetween(p, q) == <<q[1] - p[1], q[2] - p[2]>>

LegalTurn(h1, h2) == h2 = h1 \/ h2 = Clockwise(h1)

RefSucc(mz, s) ==
    {t \in Cells(mz) \X UnitSteps :
        /\ t[1] = <<s[1][1] + t[2][1], s[1][2] + t[2][2]>>
        /\ Free(mz, t[1])
        /\ (s[2] = None \/ LegalTurn(s[2], t[2]))}

\* Fewest moves from a state of `frontier` (all k moves from the start) to the
\* cell goal; -1 when no constrained path leads there.
RECURSIVE RefMinMoves(_, _, _, _, _)
RefMinMoves(mz, goal, frontier, seen, k) ==
    IF \E s \in frontier : s[1] = goal THEN k
    ELSE IF frontier = {} THEN -1
    ELSE LET nxt == (UNION {RefSucc(mz, s) : s \in frontier}) \ seen
         IN RefMinMoves(mz, goal, nxt, seen \cup nxt, k + 1)

MinMoves == RefMinMoves(maze, end, {<<start, None>>}, {<<start, None>>}, 0)

Moves(path) == Len(path) - 1

Heading(path, i) == StepBetween(path[i], path[i + 1])

\* A complete constrained path of the maze from start to end.
ConstrainedPath(path) ==
    /\ Len(path) >= 1
    /\ path[1] = start /\ path[Len(path)] = end
    /\ \A i \in 1..Len(path) : path[i] \in Cells(maze) /\ Free(maze, path[i])
    /\ \A i \in 1..(Len(path) - 1) : Heading(path, i) \in UnitSteps
    /\ \A i \in 1..(Len(path) - 2) :
          LegalTurn(Heading(path, i), Heading(path, i + 1))

\* ------------------------------------------------------------------- claims
\* C1 (optimality): a returned path has exactly as many moves as the shortest
\* start-to-goal path that obeys the forward / turn-right constraint.
C1_Optimality == pc = "Success" => Moves(result) = MinMoves

\* A path was returned that is longer than the Manhattan distance: the
\* constraint forced a detour.
C1_Witness == pc = "Success" /\ Moves(result) > Heuristic(start, end)

\* C2 (sentinel correctness): None is returned only when no constrained path
\* exists, a path only when one exists, and a returned path is a complete
\* constrained path from start to goal; nothing but a path or None is returned.
C2_Sentinel ==
    /\ pc = "Exhausted" => MinMoves = -1 /\ result = None
    /\ pc = "Success" => MinMoves # -1 /\ ConstrainedPath(result)
    /\ pc = "Running" => result = None

\* None was returned after a search that expanded more than the start node.
C2_Witness == pc = "Exhausted" /\ Len(closed_list) > 2 /\ MinMoves = -1

\* C3 (turn legality): in a returned path every move after the first keeps the
\* heading of the move before it or is its clockwise quarter turn.
C3_TurnLegality ==
    pc = "Success" =>
        \A i \in 1..(Len(result) - 2) :
            \/ Heading(result, i + 1) = Heading(result, i)
            \/ Heading(result, i + 1) = Clockwise(Heading(result, i))

\* A returned path with a right turn and a forward move in it.
C3_Witness ==
    /\ pc = "Success"
    /\ \E i \in 1..(Len(result) - 2) :
          Heading(result, i + 1) = Clockwise(Heading(result, i))
    /\ \E i \in 1..(Len(result) - 2) :
          Heading(result, i + 1) = Heading(result, i)

\* C4 (path well-formedness): a returned path starts at start, ends at the
\* goal, and consecutive coordinates are one unit step apart on one axis.
C4_WellFormed ==
    pc = "Success" =>
        /\ Len(result) >= 1
        /\ result[1] = start
        /\ result[Len(result)] = end
        /\ \A i \in 1..(Len(result) - 1) :
              abs(result[i + 1][1] - result[i][1])
                + abs(result[i + 1][2] - result[i][2]) = 1

\* A returned path of at least two moves.
C4_Witness == pc = "Success" /\ Len(result) >= 3 /\ start # end

\* C5 (successor legality): every node astar creates, so every node of the
\* frontier and of the closed set, is inside the grid on a free cell, and so is
\* every coordinate of a returned path.
C5_SuccessorLegality ==
    /\ \A id \in 1..Len(nodes) :
          nodes[id].position \in Cells(maze) /\ Free(maze, nodes[id].position)
    /\ \A i \in 1..Len(result) :
          result[i] \in Cells(maze) /\ Free(maze, result[i])

\* A successor of an expanded node n whose move d was refused is in the arena.
RefusedYetExpanded(n, refused(_)) ==
    /\ nodes[n].direction # None
    /\ \E d \in UnitSteps :
          /\ LegalTurn(nodes[n].direction, d)
          /\ refused(node_position(nodes[n].position, d))
    /\ \E id \in 1..Len(nodes) : nodes[id].parent = n

IsWall(p) == p \in Cells(maze) /\ ~Free(maze, p)

IsOutside(p) == p \notin Cells(maze)

\* One expanded node had a wall in one of its two moves, another one the edge
\* of the grid, and each got its other successor.
C5_Witness ==
    /\ \E k \in 1..Len(closed_list) : RefusedYetExpanded(closed_list[k], IsWall)
    /\ \E k \in 1..Len(closed_list) : RefusedYetExpanded(closed_list[k], IsOutside)

\* C6 (invalid input is rejected): on a ragged grid, or with start or goal
\* outside the grid or on a wall, astar expands nothing and returns neither a
\* path nor None.
C6_InvalidInputRejected ==
    ~ValidInput => closed_list = <<>> /\ pc \notin {"Success", "Exhausted"}

\* C7 (start equals goal): the first pop is the goal, no successor is ever
\* created, and the path returned is [start], which is not the sentinel.
C7_StartIsGoal ==
    start = end =>
        /\ Len(nodes) = 1
        /\ pc = "Running" => closed_list = <<>> /\ open_list = <<1>>
        /\ pc # "Running" =>
              /\ pc = "Success"
              /\ closed_list = <<1>>
              /\ result = <<start>>
              /\ result # None

\* astar returned on an input whose start is its goal.
C7_Witness == start = end /\ pc = "Success" /\ Len(closed_list) = 1

\* No cell next to start is inside the grid and free.
BlockedStart ==
    \A d \in UnitSteps :
        LET p == <<start[1] + d[1], start[2] + d[2]>>
        IN p \notin Cells(maze) \/ ~Free(maze, p)

ScenarioA == maze = <<<<0, 1>>, <<1, 0>>>> /\ start = <<0, 0>> /\ end = <<1, 1>>

\* The state part of C8: with a blocked start that is not the goal, only the
\* start node is ever created and expanded, the frontier is empty after that
\* expansion, and the only way out of the loop is None.
BlockedStartStates ==
    (BlockedStart /\ start # end) =>
        /\ Len(nodes) = 1
        /\ closed_list \in {<<>>, <<1>>}
        /\ closed_list = <<>> => open_list = <<1>> /\ pc = "Running"
        /\ closed_list = <<1>> => open_list = <<>>
        /\ pc \in {"Running", "Exhausted"}
        /\ pc = "Exhausted" => closed_list = <<1>> /\ result = None

\* C8 (blocked start): one expansion, then an empty frontier, then None; so it
\* is for the grid [[0,1],[1,0]] from (0,0) to (1,1).
C8_BlockedStart ==
    /\ [](pc # "Idle" => BlockedStartStates)
    /\ (pc = "Running" /\ BlockedStart /\ start # end) ~> (pc = "Exhausted")
    /\ (pc = "Running" /\ ScenarioA) ~> (pc = "Exhausted" /\ result = None)

\* astar returned None on the grid [[0,1],[1,0]] from (0,0) to (1,1).
C8_Witness ==
    pc = "Exhausted" /\ ScenarioA /\ BlockedStart /\ closed_list = <<1>>

\* Number of (position, heading) states of the maze, the start state included.
StateSpaceSize == 4 * Cardinality(Cells(maze)) + 1

\* C9 (termination): the loop leaves Running, for Success or for Exhausted and
\* for good, after at most 4 * cells + 1 iterations.
C9_Termination ==
    /\ (pc = "Running") ~> (pc = "Success" \/ pc = "Exhausted")
    /\ [](pc \in {"Idle", "Running", "Success", "Exhausted"})
    /\ [](pc # "Idle" => Len(closed_list) <= StateSpaceSize)
    /\ [][(pc \in {"Success", "Exhausted"}) => (pc' = pc /\ result' = result)]_vars

\* The frontier emptied on an unreachable goal after several expansions.
C9_Witness == pc = "Exhausted" /\ MinMoves = -1 /\ Len(closed_list) >= 4

ScenarioB ==
    /\ maze = <<<<0, 0, 0>>, <<1, 1, 0>>, <<0, 0, 0>>>>
    /\ start = <<0, 0>> /\ end = <<2, 0>>

ScenarioBPath ==
    <<<<0, 0>>, <<0, 1>>, <<0, 2>>, <<1, 2>>, <<2, 2>>, <<2, 1>>, <<2, 0>>>>

\* C10 (scenario B): on the forced corridor astar returns the path of 6 moves
\* along the top row, down the right column and back along the bottom row.
C10_ScenarioB ==
    (ScenarioB /\ pc # "Running") =>
        pc = "Success" /\ result = ScenarioBPath /\ Moves(result) = 6

\* astar returned on scenario B.
C10_Witness == ScenarioB /\ pc = "Success"

\* -------------------------------------------------- claims on the two lists
\* The State of a node: its position and its heading.
StateOf(n) == <<n.position, n.direction>>

OpenNodes == {open_list[i] : i \in 1..Len(open_list)}

ClosedNodes == {closed_list[k] : k \in 1..Len(closed_list)}

\* Nodes created and then dropped by the loop over the children.
DroppedNodes == (1..Len(nodes)) \ (OpenNodes \cup ClosedNodes)

\* C12 (closed states are final): the closed list holds a State at most once,
\* and no node of the frontier has the State of a closed node, so a closed
\* State is neither inserted nor popped again.
C12_ClosedFinal ==
    /\ \A i, j \in 1..Len(closed_list) :
          i < j => StateOf(nodes[closed_list[i]]) # StateOf(nodes[closed_list[j]])
    /\ \A o \in OpenNodes : \A c \in ClosedNodes :
          StateOf(nodes[o]) # StateOf(nodes[c])

\* A later expansion produced a State that was closed already, and the child
\* was dropped before it got its costs.
C12_Witness ==
    \E id \in DroppedNodes : \E c \in ClosedNodes :
        /\ nodes[id].parent # 0 /\ nodes[id].g = 0
        /\ StateOf(nodes[id]) = StateOf(nodes[c])
        /\ id > c

\* Fewest moves from the start state to the state target; -1 when no
\* constrained path leads there.
RECURSIVE RefStateMoves(_, _, _, _, _)
RefStateMoves(mz, target, frontier, seen, k) ==
    IF target \in frontier THEN k
    ELSE IF frontier = {} THEN -1
    ELSE LET nxt == (UNION {RefSucc(mz, s) : s \in frontier}) \ seen
         IN RefStateMoves(mz, target, nxt, seen \cup nxt, k + 1)

ShortestTo(state) ==
    RefStateMoves(maze, state, {<<start, None>>}, {<<start, None>>}, 0)

\* The node popped last has the fewest constrained moves to its State as g.
LastPoppedOptimal ==
    Len(closed_list) > 0 =>
        LET c == closed_list[Len(closed_list)]
        IN nodes[c].g = ShortestTo(StateOf(nodes[c]))

\* C13 (first expansion is optimal): the g of a node is, when it is popped,
\* the fewest constrained moves from the start to its State, and a closed
\* node keeps its costs, so every closed node carries that distance.
C13_FirstExpansionOptimal ==
    /\ []LastPoppedOptimal
    /\ [][\A c \in ClosedNodes : nodes'[c] = nodes[c]]_vars

\* A popped node whose State is further from the start than the Manhattan
\* distance of its cell.
C13_Witness ==
    \E c \in ClosedNodes :
        /\ nodes[c].g > Heuristic(start, nodes[c].position)
        /\ nodes[c].g = ShortestTo(StateOf(nodes[c]))

\* C14 (frontier uniqueness): the frontier holds at most one node per State,
\* no node created so far for that State has a lower g, and no State is in
\* the frontier and in the closed list at once.
C14_FrontierUnique ==
    /\ \A i, j \in 1..Len(open_list) :
          i < j => StateOf(nodes[open_list[i]]) # StateOf(nodes[open_list[j]])
    /\ \A o \in OpenNodes : \A id \in 1..Len(nodes) :
          StateOf(nodes[id]) = StateOf(nodes[o]) => nodes[id].g >= nodes[o].g
    /\ \A o \in OpenNodes : \A c \in ClosedNodes :
          StateOf(nodes[o]) # StateOf(nodes[c])

\* A second node for a State of the frontier was created, got its costs and
\* was dropped by the dominance check.
C14_Witness ==
    \E id \in DroppedNodes : \E o \in OpenNodes :
        /\ nodes[id].g >= 1
        /\ StateOf(nodes[id]) = StateOf(nodes[o])
        /\ id > o

\* The sequence s without its i-th element.
Without(s, i) == [k \in 1..(Len(s) - 1) |-> IF k < i THEN s[k] ELSE s[k + 1]]

\* The step pops the node at index i of the frontier: no node of the frontier
\* has a lower f, none before it has an equal f, and the nodes that stay keep
\* their order at the head of the new frontier.
PopsAt(i) ==
    /\ closed_list' = Append(closed_list, open_list[i])
    /\ \A j \in 1..Len(open_list) : nodes[open_list[j]].f >= nodes[open_list[i]].f
    /\ \A j \in 1..(i - 1) : nodes[open_list[j]].f > nodes[open_list[i]].f
    /\ Len(open_list') >= Len(open_list) - 1
    /\ SubSeq(open_list', 1, Len(open_list) - 1) = Without(open_list, i)

\* The frontier is in insertion order: nodes are numbered as they are created.
InsertionOrdered ==
    \A i, j \in 1..Len(open_list) : i < j => open_list[i] < open_list[j]

\* C15 (pop order): every pop takes a node of minimal f, the earliest inserted
\* of those, and leaves the other nodes in their insertion order.
C15_PopOrder ==
    /\ []InsertionOrdered
    /\ [][Len(closed_list') # Len(closed_list) =>
            \E i \in 1..Len(open_list) : PopsAt(i)]_vars

\* The last pop had to choose: a node with the same f, inserted later, is
\* still in the frontier, and so is a node with a higher f inserted earlier.
C15_Witness ==
    /\ Len(closed_list) > 0
    /\ \E o \in OpenNodes :
          /\ nodes[o].f = nodes[closed_list[Len(closed_list)]].f
          /\ nodes[o].parent # closed_list[Len(closed_list)]
          /\ o > closed_list[Len(closed_list)]
    /\ \E o \in OpenNodes :
          /\ nodes[o].f > nodes[closed_list[Len(closed_list)]].f
          /\ o < closed_list[Len(closed_list)]

ListedNodes == OpenNodes \cup ClosedNodes

\* C16 (node cost fields): every node of the frontier or of the closed list,
\* the start node too, has the Manhattan distance of its cell to the goal as h
\* and g + h as f.
C16_NodeCosts ==
    \A id \in ListedNodes :
        /\ nodes[id].h = abs(nodes[id].position[1] - end[1])
                           + abs(nodes[id].position[2] - end[2])
        /\ nodes[id].f = nodes[id].g + nodes[id].h

\* C17 (parent chains): the start node has g = 0 and no parent; every other
\* listed node has a closed parent, created before it, and one more move than
\* it, so that its chain of g + 1 nodes ends at the start node; a returned
\* path has g + 1 coordinates, g being the cost of the popped goal node.
C17_ParentChains ==
    /\ nodes[1].parent = 0 /\ nodes[1].g = 0 /\ nodes[1].position = start
    /\ \A id \in ListedNodes \ {1} :
          /\ nodes[id].parent \in ClosedNodes
          /\ nodes[id].parent < id
          /\ nodes[id].g = nodes[nodes[id].parent].g + 1
    /\ \A id \in ListedNodes :
          LET chain == ParentChain(nodes, id)
          IN Len(chain) = nodes[id].g + 1 /\ chain[Len(chain)] = start
    /\ pc = "Success" =>
          Len(result) = nodes[closed_list[Len(closed_list)]].g + 1

\* A path of three moves or more was returned.
C17_Witness ==
    /\ pc = "Success"
    /\ Len(result) >= 4
    /\ nodes[closed_list[Len(closed_list)]].g = Len(result) - 1

\* C18 (single undirected node): of all nodes created, only the start node
\* has no direction; every other node has the unit step from its parent's
\* cell to its own as direction, also when it is on the start cell.
C18_SingleUndirected ==
    /\ nodes[1].direction = None
    /\ \A id \in 2..Len(nodes) :
          /\ nodes[id].direction \in UnitSteps
          /\ nodes[id].direction =
                StepBetween(nodes[nodes[id].parent].position, nodes[id].position)
    /\ Cardinality({id \in ListedNodes : nodes[id].direction = None}) = 1

\* The search came back to the start cell: a listed node other than the start
\* node is on it.
C18_Witness ==
    \E id \in ListedNodes : id # 1 /\ nodes[id].position = start

\* C19 (monotone expansion): the f of the popped nodes never decreases, from
\* the start node's 0 on, and no listed node has a lower f than its parent, the
\* node that was being expanded when it was inserted.
C19_MonotoneExpansion ==
    /\ Len(closed_list) > 0 => closed_list[1] = 1 /\ nodes[1].f = 0
    /\ \A k \in 1..(Len(closed_list) - 1) :
          nodes[closed_list[k]].f <= nodes[closed_list[k + 1]].f
    /\ \A id \in ListedNodes \ {1} : nodes[id].f >= nodes[nodes[id].parent].f

\* After the start node, the f of the popped nodes stayed equal once and rose
\* once.
C19_Witness ==
    /\ \E k \in 2..(Len(closed_list) - 1) :
          nodes[closed_list[k]].f = nodes[closed_list[k + 1]].f
    /\ \E k \in 2..(Len(closed_list) - 1) :
          nodes[closed_list[k]].f < nodes[closed_list[k + 1]].f

\* ------------------------------------------------ astar of src/solution1.py
\* possible_moves starts empty and gets the moves of a list one at a time.
RECURSIVE AppendEach(_, _, _)
AppendEach(moves, dirs, i) ==
    IF i > Len(dirs) THEN moves
    ELSE AppendEach(Append(moves, dirs[i]), dirs, i + 1)

\* Mutation: the start node's moves are appended last to first.
possible_moves_reversed(direction) ==
    IF direction = None THEN AppendEach(<<>>, Reversed(DIRECTIONS), 1)
    ELSE <<direction, turn_right_map(direction)>>

possible_moves_solution1(direction) ==
    IF direction = None THEN AppendEach(<<>>, DIRECTIONS, 1)
    ELSE <<direction, turn_right_map(direction)>>

GenerationRaisesSolution1(mz, cur) ==
    LET moves == possible_moves_solution1(cur.direction)
    IN \E i \in 1..Len(moves) :
          LET p == node_position(cur.position, moves[i])
          IN WithinRange(mz, p) /\ CellRaises(mz, p)

\* One iteration of solution1 that pops a node which is not the goal.
ExpandSolution1 ==
    /\ pc = "Running"
    /\ Len(open_list) > 0
    /\ \E ci \in {current_index(nodes, open_list)} :
       \E cur \in {nodes[open_list[ci]]} :
          /\ cur.position # end
          /\ ~GenerationRaisesSolution1(maze, cur)
          /\ \E cl \in {Append(closed_list, open_list[ci])} :
             \E ns \in {nodes \o Children(maze, open_list[ci], cur,
                                 possible_moves_solution1(cur.direction), 1)} :
             \E after \in {ProcessChildren(
                              [nodes |-> ns, open_list |-> Pop(open_list, ci)],
                              cl, cur, end, Len(nodes) + 1, Len(ns))} :
                /\ closed_list' = cl
                /\ nodes' = after.nodes
                /\ open_list' = after.open_list
    /\ UNCHANGED <<maze, start, end, pc, result>>

NextSolution1 == FoundGoal \/ ExpandSolution1 \/ ReturnNone

\* astar of solution1.py on valid input.
SpecSolution1 == Init /\ [][NextSolution1]_vars

\* C20 (the two implementations agree): on every valid input, each iteration of
\* solution1's astar is the iteration the other astar makes from the same
\* frontier, closed list and nodes, with the same result, and either one
\* stops or returns exactly where the other does.
C20_Agree ==
    /\ [][Next]_vars
    /\ [](ENABLED Next <=> ENABLED NextSolution1)

\* solution1 expanded its start node into two children or more, searched on
\* and returned a path.
C20_Witness ==
    /\ pc = "Success"
    /\ Len(closed_list) >= 3
    /\ Cardinality({id \in 1..Len(nodes) : nodes[id].parent = 1}) >= 2

====
